---- MODULE Spec2Model ----
(***************************************************************************)
(* Model of search_copy.py: generate_codebase_markdown walks the directory *)
(* that holds the script, buckets the source files by language, orders the *)
(* languages by volume and writes <project>.codebase.md.                   *)
(*                                                                         *)
(* Strings are TLC strings; Len, SubSeq and \o act on them as on           *)
(* sequences of characters.  Raw file contents are sequences of bytes.     *)
(***************************************************************************)
EXTENDS Integers, Sequences, FiniteSets, TLC

(* ------------------------------ bounds -------------------------------- *)

\* Longest decoded content of a file of the tree, in characters.
MaxLen == 2

\* Number of times the tool is invoked in SpecRerun.
MaxRuns == 2

(* ------------------------- string primitives -------------------------- *)

UpperChars == "ABCDEFGHIJKLMNOPQRSTUVWXYZ"

LowerChars == "abcdefghijklmnopqrstuvwxyz"

CharAt(s, i) == SubSeq(s, i, i)

\* Index of the last occurrence of character c in the first n characters
\* of s, 0 when there is none.
RECURSIVE LastIndexUpTo(_, _, _)
LastIndexUpTo(s, c, n) ==
    IF n = 0 THEN 0 ELSE IF CharAt(s, n) = c THEN n ELSE LastIndexUpTo(s, c, n - 1)

\* The lower-case letter of each upper-case letter, and the reverse.
ToLower == [c \in {CharAt(UpperChars, i) : i \in 1..Len(UpperChars)} |->
               CharAt(LowerChars, LastIndexUpTo(UpperChars, c, Len(UpperChars)))]

ToUpper == [c \in {CharAt(LowerChars, i) : i \in 1..Len(LowerChars)} |->
               CharAt(UpperChars, LastIndexUpTo(LowerChars, c, Len(LowerChars)))]

\* str.lower() on one character.
LowerChar(c) == IF c \in DOMAIN ToLower THEN ToLower[c] ELSE c

\* str.upper() on one character.
UpperChar(c) == IF c \in DOMAIN ToUpper THEN ToUpper[c] ELSE c

RECURSIVE Lower(_)
Lower(s) == IF Len(s) = 0 THEN "" ELSE LowerChar(CharAt(s, 1)) \o Lower(SubSeq(s, 2, Len(s)))

RECURSIVE Upper(_)
Upper(s) == IF Len(s) = 0 THEN "" ELSE UpperChar(CharAt(s, 1)) \o Upper(SubSeq(s, 2, Len(s)))

\* c * n for a one-character string c; a negative count gives "".
RECURSIVE Repeat(_, _)
Repeat(c, n) == IF n <= 0 THEN "" ELSE c \o Repeat(c, n - 1)

\* str.rfind(c) + 1.
LastIndexOf(s, c) == LastIndexUpTo(s, c, Len(s))

\* os.path.dirname on an absolute POSIX path without trailing separator.
Dirname(p) ==
    LET i == LastIndexOf(p, "/") IN IF i <= 1 THEN SubSeq(p, 1, i) ELSE SubSeq(p, 1, i - 1)

\* os.path.basename.
Basename(p) == SubSeq(p, LastIndexOf(p, "/") + 1, Len(p))

\* os.path.join(a, b) for a relative b.
Join(a, b) == IF CharAt(a, Len(a)) = "/" THEN a \o b ELSE a \o "/" \o b

\* os.path.splitext(filename)[1]: the text from the last dot on, unless only
\* dots precede that dot (a leading-dot name such as ".py" has no extension).
SplitExt(filename) ==
    LET sep == LastIndexOf(filename, "/")
        dot == LastIndexOf(filename, ".")
    IN  IF /\ dot > sep
           /\ \E k \in (sep + 1)..(dot - 1) : CharAt(filename, k) # "."
        THEN SubSeq(filename, dot, Len(filename))
        ELSE ""

(* -------------------------- program constants ------------------------- *)

\* Absolute path of the running script (__file__ after os.path.abspath).
ScriptFile == "/ws/overlay.v2/search_copy.py"

root_dir == Dirname(ScriptFile)

project_name == Basename(root_dir)

output_filename == project_name \o ".codebase.md"

output_path == Join(root_dir, output_filename)

exclude_dirs ==
    {".git", "venv", "__pycache__", ".env", ".pytest_cache", "env",
     "node_modules", ".idea", "target", "build", "dist"}

\* The dict literal, in declaration order.
lang_extensions ==
    << [lang |-> "Python",     exts |-> <<".py">>],
       [lang |-> "Rust",       exts |-> <<".rs">>],
       [lang |-> "JavaScript", exts |-> <<".js", ".jsx">>],
       [lang |-> "TypeScript", exts |-> <<".ts", ".tsx">>],
       [lang |-> "Java",       exts |-> <<".java">>],
       [lang |-> "C++",        exts |-> <<".cpp", ".hpp", ".cc", ".cxx", ".h", ".hh">>],
       [lang |-> "C",          exts |-> <<".c", ".h">>],
       [lang |-> "Go",         exts |-> <<".go">>],
       [lang |-> "Ruby",       exts |-> <<".rb">>],
       [lang |-> "PHP",        exts |-> <<".php">>],
       [lang |-> "Swift",      exts |-> <<".swift">>],
       [lang |-> "Kotlin",     exts |-> <<".kt">>],
       [lang |-> "Scala",      exts |-> <<".scala">>],
       [lang |-> "HTML",       exts |-> <<".html", ".htm">>],
       [lang |-> "CSS",        exts |-> <<".css", ".scss", ".sass">>],
       [lang |-> "Shell",      exts |-> <<".sh", ".bash">>],
       [lang |-> "C#",         exts |-> <<".cs">>],
       [lang |-> "R",          exts |-> <<".r", ".R">>],
       [lang |-> "SQL",        exts |-> <<".sql">>] >>

Labels == { lang_extensions[i].lang : i \in DOMAIN lang_extensions }

\* The (extension, label) assignments in the order the two nested loops make them.
RECURSIVE Assignments(_)
Assignments(table) ==
    IF table = <<>> THEN <<>>
    ELSE [k \in DOMAIN Head(table).exts |->
            [ext |-> Lower(Head(table).exts[k]), lang |-> Head(table).lang]]
         \o Assignments(Tail(table))

\* ext_to_lang[e] = lang, as a dict assignment: a later one replaces an earlier.
Assign(m, e, lang) == [x \in DOMAIN m \cup {e} |-> IF x = e THEN lang ELSE m[x]]

\* An assignment that keeps the label an extension already has.
AssignIfAbsent(m, e, lang) == IF e \in DOMAIN m THEN m ELSE Assign(m, e, lang)

RECURSIVE Invert(_, _)
Invert(m, as) ==
    IF as = <<>> THEN m
    ELSE Invert(Assign(m, Head(as).ext, Head(as).lang), Tail(as))

RECURSIVE InvertFirstWins(_, _)
InvertFirstWins(m, as) ==
    IF as = <<>> THEN m
    ELSE InvertFirstWins(AssignIfAbsent(m, Head(as).ext, Head(as).lang), Tail(as))

EmptyMap == [x \in {} |-> ""]

ext_to_lang_first_wins == InvertFirstWins(EmptyMap, Assignments(lang_extensions))

\* The inverted table.
ext_to_lang == Invert(EmptyMap, Assignments(lang_extensions))

\* Width of the boxes.
box_width == 40

\* Width of the horizontal rule under the heading.
separator_width == 40

\* Width of the dashed line after each file.
dash_width == 80

(* ----------------------------- file system ---------------------------- *)

\* Base name of the script, as line 64 computes it.
ScriptName == Basename(ScriptFile)

\* Names of the directory d2, two levels down: one the tool descends into,
\* one it prunes.
DirNames == {"src", "node_modules"}

\* Names of the directory d1 in the root: "src" and every excluded name.
TopNames == {"src"} \cup exclude_dirs

\* File names of the tree with an extension of the table, one of them
\* spelled in upper case.
SourceNames == {"main.PY", "x.h", "a.cpp"}

\* File names of the tree the tool never opens: an extension outside the
\* table, and the name the script has.
OtherNames == {"image.png", ScriptName}

\* A raw file of n decodable bytes; from two bytes on it also holds a byte
\* (0xFF) that is no UTF-8, which errors='ignore' drops.
Raw(n) == IF n >= 2 THEN <<97, 255>> \o [i \in 1..(n - 1) |-> 97] ELSE [i \in 1..n |-> 97]

\* What the tree can hold in one place: a name, raw bytes, and whether
\* open()/read() succeeds on it.
FilePool ==
    { [name |-> n, raw |-> Raw(k), readable |-> TRUE] : n \in SourceNames, k \in 1..MaxLen }
    \cup { [name |-> n, raw |-> Raw(1), readable |-> FALSE] : n \in SourceNames }
    \cup { [name |-> n, raw |-> Raw(1), readable |-> TRUE] : n \in OtherNames }

\* The files of the pool in their plain variant, readable and one byte long:
\* what the tree holds in an excluded directory two levels down.
PlainPool == { f \in FilePool : f.readable /\ f.raw = Raw(1) }

\* What the tree holds in and below an excluded directory of the root: a
\* readable file with an extension of the table.
PlainFile == [name |-> "x.h", raw |-> Raw(1), readable |-> TRUE]

\* chr() on the bytes the tree uses.
Chr(b) == IF b = 97 THEN "a" ELSE "?"

\* bytes.decode('utf-8', errors='ignore'): undecodable bytes are dropped.
RECURSIVE Decode(_)
Decode(raw) ==
    IF raw = <<>> THEN ""
    ELSE (IF Head(raw) < 128 THEN Chr(Head(raw)) ELSE "") \o Decode(Tail(raw))

\* The output file when it does not exist: no chunk the tool writes has this kind.
NoFile == << [kind |-> "absent", text |-> ""] >>

VARIABLES
    listing,        \* directory path -> [dirnames, filenames], in scandir order
    files,          \* file path -> [raw, readable]
    outdoc,         \* the output file on disk: NoFile, or the chunks written to it
    stdout,         \* lines printed
    pc,             \* position of the run
    stack,          \* directories os.walk has still to yield, next first
    dirpath,        \* loop variables of line 52
    dirnames,
    filenames,      \* file names of dirpath the inner loop has not reached yet
    files_by_lang,  \* ordered dict: sequence of [lang, files], in insertion order
    lang_volumes,   \* ordered dict: sequence of [lang, vol]
    sorted_langs,
    li,             \* index into sorted_langs of the section being written
    fi,             \* index into the bucket of the entry being written
    run,            \* number of the invocation
    walked,         \* history: directories yielded by os.walk in this run
    visited,        \* history: the files the inner loop reached in this run, and how it left each
    docs            \* history: the document of each completed invocation

vars ==
    << listing, files, outdoc, stdout, pc, stack, dirpath, dirnames, filenames,
       files_by_lang, lang_volumes, sorted_langs, li, fi, run, walked, visited, docs >>

fsvars == << listing, files >>

(* The tree: the root holds the script, one more file f1, the directory    *)
(* .git with a file of its own, and the directory d1; d1 holds f2 and the  *)
(* directory d2; d2 holds f3.                                              *)
Tree(d1, d2, f1, f2, f3) ==
    LET git == Join(root_dir, ".git")
        p1  == Join(root_dir, d1)
        p2  == Join(p1, d2)
    IN  [ dirs |->
            [ p \in {root_dir, git, p1, p2} |->
                IF p = root_dir THEN [dirnames |-> <<".git", d1>>, filenames |-> <<f1.name, ScriptName>>]
                ELSE IF p = git THEN [dirnames |-> <<>>, filenames |-> <<"hook.py">>]
                ELSE IF p = p1 THEN [dirnames |-> <<d2>>, filenames |-> <<f2.name>>]
                ELSE [dirnames |-> <<>>, filenames |-> <<f3.name>>] ],
          files |->
            [ q \in {ScriptFile, Join(git, "hook.py"), Join(root_dir, f1.name),
                     Join(p1, f2.name), Join(p2, f3.name)} |->
                IF q = ScriptFile \/ q = Join(git, "hook.py") THEN [raw |-> Raw(1), readable |-> TRUE]
                ELSE IF q = Join(root_dir, f1.name) THEN [raw |-> f1.raw, readable |-> f1.readable]
                ELSE IF q = Join(p1, f2.name) THEN [raw |-> f2.raw, readable |-> f2.readable]
                ELSE [raw |-> f3.raw, readable |-> f3.readable] ] ]

\* The program state at the start of an invocation, line 51 reached.
Start ==
    /\ pc = "walk"
    /\ stack = <<root_dir>>
    /\ dirpath = ""
    /\ dirnames = <<>>
    /\ filenames = <<>>
    /\ files_by_lang = <<>>
    /\ lang_volumes = <<>>
    /\ sorted_langs = <<>>
    /\ li = 0
    /\ fi = 0
    /\ walked = <<>>
    /\ visited = <<>>

Init ==
    /\ \E d1 \in TopNames, d2 \in DirNames :
       \E f1 \in {f \in FilePool : f.name # ScriptName}, f2 \in FilePool, f3 \in FilePool :
            /\ d1 \in exclude_dirs => f2 = PlainFile /\ f3 = PlainFile
            /\ d2 \in exclude_dirs => f3 \in PlainPool
            /\ listing = Tree(d1, d2, f1, f2, f3).dirs
            /\ files = Tree(d1, d2, f1, f2, f3).files
    /\ outdoc = NoFile
    /\ stdout = <<>>
    /\ run = 1
    /\ docs = <<>>
    /\ Start

(* ------------------------------ the walk ------------------------------ *)

\* A pruning that keeps every name.
PruneNothing(names) == names

\* Line 54: the child list without the excluded names, order kept.
Prune(names) == SelectSeq(names, LAMBDA d : d \notin exclude_dirs)

\* Lines 58-59: the lower-cased extension of a file name.
ExtOf(filename) == Lower(SplitExt(filename))

\* Line 60.
Recognized(filename) == ExtOf(filename) \in DOMAIN ext_to_lang

\* Line 64: the script is told by its base name alone.
IsSelf(filename) == filename = ScriptName

\* Line 68.
LangOf(filename) == ext_to_lang[ExtOf(filename)]

HasBucket(fbl, lang) == \E i \in DOMAIN fbl : fbl[i].lang = lang

BucketOf(fbl, lang) ==
    IF HasBucket(fbl, lang)
    THEN fbl[CHOOSE i \in DOMAIN fbl : fbl[i].lang = lang].files
    ELSE <<>>

\* An append that creates the bucket but drops the record that created it.
AppendRecordLosingFirst(fbl, lang, rec) ==
    IF HasBucket(fbl, lang)
    THEN [i \in DOMAIN fbl |->
            IF fbl[i].lang = lang THEN [fbl[i] EXCEPT !.files = Append(@, rec)] ELSE fbl[i]]
    ELSE Append(fbl, [lang |-> lang, files |-> <<>>])

\* Line 73: files_by_lang[lang].append(rec); the defaultdict creates the
\* bucket, at the end of the dict's order, on first use.
AppendRecord(fbl, lang, rec) ==
    IF HasBucket(fbl, lang)
    THEN [i \in DOMAIN fbl |->
            IF fbl[i].lang = lang THEN [fbl[i] EXCEPT !.files = Append(@, rec)] ELSE fbl[i]]
    ELSE Append(fbl, [lang |-> lang, files |-> <<rec>>])

walkvars == << stack, dirpath, dirnames, walked >>

rendervars == << lang_volumes, sorted_langs, li, fi >>

iovars == << outdoc, stdout, docs >>

\* Lines 52-54: os.walk yields the next directory, top-down, and the body
\* prunes its child list in place; os.walk then descends into what is left
\* of that list, in order, once the body is done with the directory's files.
WalkDir ==
    /\ pc = "walk"
    /\ filenames = <<>>
    /\ stack # <<>>
    /\ LET top  == Head(stack)
           kept == Prune(listing[top].dirnames)
       IN  /\ dirpath' = top
           /\ dirnames' = kept
           /\ filenames' = listing[top].filenames
           /\ stack' = [i \in DOMAIN kept |-> Join(top, kept[i])] \o Tail(stack)
           /\ walked' = Append(walked, top)
    /\ UNCHANGED << fsvars, iovars, pc, files_by_lang, rendervars, run, visited >>

\* The inner loop is done with a file name, in the way did names: at the
\* continue of line 61 ("unrecognized") or of line 65 ("self"), in the except
\* clause ("failed") or after the append ("read").
NextFile(did) ==
    /\ filenames' = Tail(filenames)
    /\ visited' = Append(visited, [path |-> Join(dirpath, Head(filenames)), did |-> did])

\* Lines 58-61: an extension the table does not hold.
SkipUnrecognized ==
    /\ pc = "walk"
    /\ filenames # <<>>
    /\ ~Recognized(Head(filenames))
    /\ NextFile("unrecognized")
    /\ UNCHANGED << fsvars, iovars, pc, walkvars, files_by_lang, rendervars, run >>

\* Lines 64-65: the script itself.
SkipSelf ==
    /\ pc = "walk"
    /\ filenames # <<>>
    /\ Recognized(Head(filenames))
    /\ IsSelf(Head(filenames))
    /\ NextFile("self")
    /\ UNCHANGED << fsvars, iovars, pc, walkvars, files_by_lang, rendervars, run >>

\* A read failure that is not caught: the exception ends the run.
ReadFailsAborting ==
    /\ pc = "walk"
    /\ filenames # <<>>
    /\ Recognized(Head(filenames))
    /\ ~IsSelf(Head(filenames))
    /\ ~files[Join(dirpath, Head(filenames))].readable
    /\ pc' = "failed"
    /\ UNCHANGED << fsvars, iovars, walkvars, filenames, files_by_lang, rendervars, run, visited >>

\* Lines 70-76: open() or read() raises; the except clause passes.
ReadFails ==
    /\ pc = "walk"
    /\ filenames # <<>>
    /\ Recognized(Head(filenames))
    /\ ~IsSelf(Head(filenames))
    /\ ~files[Join(dirpath, Head(filenames))].readable
    /\ NextFile("failed")
    /\ UNCHANGED << fsvars, iovars, pc, walkvars, files_by_lang, rendervars, run >>

\* Lines 67-73: the file is read and its record appended to its bucket.
ReadFile ==
    /\ pc = "walk"
    /\ filenames # <<>>
    /\ Recognized(Head(filenames))
    /\ ~IsSelf(Head(filenames))
    /\ LET filename  == Head(filenames)
           file_path == Join(dirpath, filename)
       IN  /\ files[file_path].readable
           /\ files_by_lang' =
                AppendRecord(files_by_lang, LangOf(filename),
                    [filename |-> filename, dirpath |-> dirpath,
                     content |-> Decode(files[file_path].raw)])
    /\ NextFile("read")
    /\ UNCHANGED << fsvars, iovars, pc, walkvars, rendervars, run >>

(* ---------------------------- the analysis ---------------------------- *)

RECURSIVE TotalChars(_)
\* Line 81: sum(len(content) for _, _, content in files).
TotalChars(fs) == IF fs = <<>> THEN 0 ELSE Len(Head(fs).content) + TotalChars(Tail(fs))

\* Lines 79-82: a dict with the keys of files_by_lang, in the same order.
Volumes(fbl) == [i \in DOMAIN fbl |-> [lang |-> fbl[i].lang, vol |-> TotalChars(fbl[i].files)]]

\* Number of leading entries of s whose volume is at least v.
RECURSIVE LeadAtLeast(_, _)
LeadAtLeast(s, v) == IF s = <<>> \/ Head(s).vol < v THEN 0 ELSE 1 + LeadAtLeast(Tail(s), v)

\* Number of leading entries of s whose volume is more than v.
RECURSIVE LeadAbove(_, _)
LeadAbove(s, v) == IF s = <<>> \/ Head(s).vol <= v THEN 0 ELSE 1 + LeadAbove(Tail(s), v)

InsertAt(s, k, x) == SubSeq(s, 1, k) \o <<x>> \o SubSeq(s, k + 1, Len(s))

\* A descending sort that puts a later entry before its equals.
RECURSIVE SortDescTiesReversed(_, _)
SortDescTiesReversed(done, todo) ==
    IF todo = <<>> THEN done
    ELSE SortDescTiesReversed(InsertAt(done, LeadAbove(done, Head(todo).vol), Head(todo)), Tail(todo))

\* sorted(..., reverse=True): descending by key, and stable, so that entries
\* of equal key keep the order they have in the input.
RECURSIVE SortDesc(_, _)
SortDesc(done, todo) ==
    IF todo = <<>> THEN done
    ELSE SortDesc(InsertAt(done, LeadAtLeast(done, Head(todo).vol), Head(todo)), Tail(todo))

\* The ordering of the volume entries by a sort that reverses ties.
OrderTiesReversed(vols) == SortDescTiesReversed(<<>>, vols)

\* Line 85, on the entries of lang_volumes.
Order(vols) == SortDesc(<<>>, vols)

\* Lines 78-85.
Analyze ==
    /\ pc = "walk"
    /\ filenames = <<>>
    /\ stack = <<>>
    /\ lang_volumes' = Volumes(files_by_lang)
    /\ sorted_langs' = [i \in DOMAIN files_by_lang |-> Order(Volumes(files_by_lang))[i].lang]
    /\ pc' = "open"
    /\ UNCHANGED << fsvars, iovars, walkvars, filenames, files_by_lang, li, fi, run, visited >>

(* ----------------------------- the report ----------------------------- *)

\* Lines 88-104.  The box-drawing characters are written with ASCII
\* stand-ins: + - | for the single-line box, # = H for the double-line one.
create_ascii_box(text, width, double_line) ==
    LET corner    == IF double_line THEN "#" ELSE "+"
        horiz     == IF double_line THEN "=" ELSE "-"
        vert      == IF double_line THEN "H" ELSE "|"
        up        == Upper(text)
        padding   == width - Len(up) - 2
        left_pad  == padding \div 2
        right_pad == padding - left_pad
        top       == corner \o Repeat(horiz, width - 2) \o corner \o "\n"
        middle    == vert \o Repeat(" ", left_pad) \o up \o Repeat(" ", right_pad) \o vert \o "\n"
        bottom    == corner \o Repeat(horiz, width - 2) \o corner \o "\n"
    IN  top \o middle \o bottom

\* A fence tagged with the label as it is spelled.
FenceTagAsSpelled(lang) == lang

\* Line 125: the tag of the fence, lang.lower().
FenceTag(lang) == Lower(lang)

\* One outfile.write(text): kind names the write statement.
Chunk(kind, text) == [kind |-> kind, text |-> text]

\* An open in append mode: what the file held stays.
OpenKeeping(doc) == IF doc = NoFile THEN <<>> ELSE doc

\* Line 107: open(output_path, 'w') creates the file or truncates it.
OpenTruncating(doc) == <<>>

\* The directory entry of the output file, created by open() when absent.
WithOutputFile(ls) ==
    IF \E i \in DOMAIN ls[root_dir].filenames : ls[root_dir].filenames[i] = output_filename
    THEN ls
    ELSE [ls EXCEPT ![root_dir].filenames = Append(@, output_filename)]

CurLang == sorted_langs[li]

CurBucket == BucketOf(files_by_lang, CurLang)

CurFile == CurBucket[fi]

Write(kind, text) == outdoc' = Append(outdoc, Chunk(kind, text))

\* Line 107, succeeding.
OpenOutput ==
    /\ pc = "open"
    /\ outdoc' = OpenTruncating(outdoc)
    /\ listing' = WithOutputFile(listing)
    /\ pc' = "w_overview"
    /\ UNCHANGED << files, stdout, docs, walkvars, filenames, files_by_lang, rendervars, run, visited >>

\* Line 107, raising: the exception leaves generate_codebase_markdown.
OpenFails ==
    /\ pc = "open"
    /\ pc' = "failed"
    /\ UNCHANGED << fsvars, iovars, walkvars, filenames, files_by_lang, rendervars, run, visited >>

\* Line 109.
WriteOverview ==
    /\ pc = "w_overview"
    /\ Write("Banner", create_ascii_box("Project Codebase Overview", box_width, FALSE))
    /\ pc' = "w_heading"
    /\ UNCHANGED << fsvars, stdout, docs, walkvars, filenames, files_by_lang, rendervars, run, visited >>

\* Line 112.
WriteHeading ==
    /\ pc = "w_heading"
    /\ Write("Heading", "# " \o project_name \o " Codebase Manifest\n\n")
    /\ pc' = "w_rule"
    /\ UNCHANGED << fsvars, stdout, docs, walkvars, filenames, files_by_lang, rendervars, run, visited >>

\* Lines 115-118: the rule, then the first turn of the loop over sorted_langs.
WriteRule ==
    /\ pc = "w_rule"
    /\ Write("Separator", Repeat("=", separator_width) \o "\n\n")
    /\ IF sorted_langs = <<>>
       THEN pc' = "close" /\ li' = li
       ELSE pc' = "w_box" /\ li' = 1
    /\ UNCHANGED << fsvars, stdout, docs, walkvars, filenames, files_by_lang, lang_volumes,
                    sorted_langs, fi, run, visited >>

\* Lines 120-122: the language box, then the first turn of the loop over the bucket.
WriteBox ==
    /\ pc = "w_box"
    /\ Write("LanguageBanner", create_ascii_box(CurLang, box_width, TRUE))
    /\ IF CurBucket = <<>>
       THEN pc' = "w_spacer" /\ fi' = fi
       ELSE pc' = "w_name" /\ fi' = 1
    /\ UNCHANGED << fsvars, stdout, docs, walkvars, filenames, files_by_lang, lang_volumes,
                    sorted_langs, li, run, visited >>

\* Line 123.
WriteName ==
    /\ pc = "w_name"
    /\ Write("FileName", CurFile.filename \o "\n")
    /\ pc' = "w_dir"
    /\ UNCHANGED << fsvars, stdout, docs, walkvars, filenames, files_by_lang, rendervars, run, visited >>

\* Line 124.
WriteDir ==
    /\ pc = "w_dir"
    /\ Write("DirPath", CurFile.dirpath \o "\n")
    /\ pc' = "w_fence"
    /\ UNCHANGED << fsvars, stdout, docs, walkvars, filenames, files_by_lang, rendervars, run, visited >>

\* Line 125.  The three backquotes of the fence are written ~~~ here and in
\* WriteEndFence.
WriteFence ==
    /\ pc = "w_fence"
    /\ Write("FenceOpen", "~~~" \o FenceTag(CurLang) \o "\n")
    /\ pc' = "w_content"
    /\ UNCHANGED << fsvars, stdout, docs, walkvars, filenames, files_by_lang, rendervars, run, visited >>

\* Line 126.
WriteContent ==
    /\ pc = "w_content"
    /\ Write("Content", CurFile.content)
    /\ pc' = "w_endfence"
    /\ UNCHANGED << fsvars, stdout, docs, walkvars, filenames, files_by_lang, rendervars, run, visited >>

\* Line 127.
WriteEndFence ==
    /\ pc = "w_endfence"
    /\ Write("FenceClose", "\n~~~\n\n")
    /\ pc' = "w_dash"
    /\ UNCHANGED << fsvars, stdout, docs, walkvars, filenames, files_by_lang, rendervars, run, visited >>

\* Line 129, then the next turn of the loop over the bucket.
WriteDash ==
    /\ pc = "w_dash"
    /\ Write("DashSeparator", Repeat("-", dash_width) \o "\n\n")
    /\ IF fi < Len(CurBucket)
       THEN pc' = "w_name" /\ fi' = fi + 1
       ELSE pc' = "w_spacer" /\ fi' = fi
    /\ UNCHANGED << fsvars, stdout, docs, walkvars, filenames, files_by_lang, lang_volumes,
                    sorted_langs, li, run, visited >>

\* Line 132, then the next turn of the loop over sorted_langs.
WriteSpacer ==
    /\ pc = "w_spacer"
    /\ Write("BlankSpacer", "\n\n")
    /\ IF li < Len(sorted_langs)
       THEN pc' = "w_box" /\ li' = li + 1
       ELSE pc' = "close" /\ li' = li
    /\ UNCHANGED << fsvars, stdout, docs, walkvars, filenames, files_by_lang, lang_volumes,
                    sorted_langs, fi, run, visited >>

WritePcs ==
    {"w_overview", "w_heading", "w_rule", "w_box", "w_name", "w_dir", "w_fence",
     "w_content", "w_endfence", "w_dash", "w_spacer", "close"}

\* A write failure that is caught and passed over: the run goes on to line 134.
WriteFailsSwallowed ==
    /\ pc \in WritePcs
    /\ pc' = "print"
    /\ UNCHANGED << fsvars, iovars, walkvars, filenames, files_by_lang, rendervars, run, visited >>

\* A write, or the flush when the with block closes the file, raises: the
\* exception leaves generate_codebase_markdown with the file as it is.
WriteFails ==
    /\ pc \in WritePcs
    /\ pc' = "failed"
    /\ UNCHANGED << fsvars, iovars, walkvars, filenames, files_by_lang, rendervars, run, visited >>

\* The with block of line 107 ends: the file is closed.
CloseOutput ==
    /\ pc = "close"
    /\ docs' = Append(docs, outdoc)
    /\ pc' = "print"
    /\ UNCHANGED << fsvars, outdoc, stdout, walkvars, filenames, files_by_lang, rendervars, run, visited >>

SuccessLine ==
    "Success: '" \o output_filename \o "' generated in workspace root: " \o root_dir

\* Line 134.
PrintSuccess ==
    /\ pc = "print"
    /\ stdout' = Append(stdout, SuccessLine)
    /\ pc' = "done"
    /\ UNCHANGED << fsvars, outdoc, docs, walkvars, filenames, files_by_lang, rendervars, run, visited >>

\* Lines 136-137, once more: the tool is started again on the tree as the
\* last invocation left it.
Rerun ==
    /\ pc = "done"
    /\ run < MaxRuns
    /\ run' = run + 1
    /\ pc' = "walk"
    /\ stack' = <<root_dir>>
    /\ dirpath' = ""
    /\ dirnames' = <<>>
    /\ filenames' = <<>>
    /\ files_by_lang' = <<>>
    /\ lang_volumes' = <<>>
    /\ sorted_langs' = <<>>
    /\ li' = 0
    /\ fi' = 0
    /\ walked' = <<>>
    /\ visited' = <<>>
    /\ stdout' = <<>>
    /\ UNCHANGED << fsvars, outdoc, docs >>

Next ==
    \/ WalkDir
    \/ SkipUnrecognized
    \/ SkipSelf
    \/ ReadFails
    \/ ReadFile
    \/ Analyze
    \/ OpenOutput
    \/ OpenFails
    \/ WriteOverview
    \/ WriteHeading
    \/ WriteRule
    \/ WriteBox
    \/ WriteName
    \/ WriteDir
    \/ WriteFence
    \/ WriteContent
    \/ WriteEndFence
    \/ WriteDash
    \/ WriteSpacer
    \/ WriteFails
    \/ CloseOutput
    \/ PrintSuccess

Spec == Init /\ [][Next]_vars

NextRerun == Next \/ Rerun

SpecRerun == Init /\ [][NextRerun]_vars

(* ------------------- the tree and the document, read ------------------ *)

\* The lower-cased extensions the table declares, whatever label gets each.
DeclaredExts ==
    UNION { { Lower(lang_extensions[i].exts[k]) : k \in DOMAIN lang_extensions[i].exts } :
            i \in DOMAIN lang_extensions }

HasDeclaredExt(q) == Lower(SplitExt(Basename(q))) \in DeclaredExts

\* p, a directory at or below the root, has an excluded name on its way
\* down from the root.
RECURSIVE HasExcludedComponent(_)
HasExcludedComponent(p) ==
    /\ Len(p) > Len(root_dir)
    /\ \/ Basename(p) \in exclude_dirs
       \/ HasExcludedComponent(Dirname(p))

UnderExcluded(q) == HasExcludedComponent(Dirname(q))

\* The files of the tree the report is to hold, the tool being the file ScriptFile.
Qualifies(q) ==
    /\ files[q].readable
    /\ q # ScriptFile
    /\ HasDeclaredExt(q)
    /\ ~UnderExcluded(q)

\* The same, with every file that has the script's name taken for the tool.
QualifiesByName(q) == Qualifies(q) /\ Basename(q) # ScriptName

StripNewline(t) == SubSeq(t, 1, Len(t) - 1)

Contains(t, sub) == \E i \in 1..(Len(t) - Len(sub) + 1) : SubSeq(t, i, i + Len(sub) - 1) = sub

\* The places of the document where a file entry starts.
EntryStarts(doc) == { i \in DOMAIN doc : doc[i].kind = "FileName" }

\* The file an entry names: its directory line joined with its name line.
EntryPath(doc, i) ==
    IF i + 1 <= Len(doc) /\ doc[i + 1].kind = "DirPath"
    THEN Join(StripNewline(doc[i + 1].text), StripNewline(doc[i].text))
    ELSE ""

EntriesOf(doc, q) == { i \in EntryStarts(doc) : EntryPath(doc, i) = q }

\* The places of the language banners, and the banner an entry stands under.
BannerPlaces(doc) == { i \in DOMAIN doc : doc[i].kind = "LanguageBanner" }

InSomeSection(doc, i) == \E b \in BannerPlaces(doc) : b < i

SectionOf(doc, i) == CHOOSE b \in BannerPlaces(doc) : b < i /\ \A c \in BannerPlaces(doc) : c < i => c <= b

\* The label a banner shows: the one whose upper-cased name is its middle line.
BannerShows(text, lang) == Contains(text, " " \o Upper(lang) \o " ")

Banners(doc) == SelectSeq(doc, LAMBDA c : c.kind = "LanguageBanner")

Kinds(doc) == [i \in DOMAIN doc |-> doc[i].kind]

EntryKinds == <<"FileName", "DirPath", "FenceOpen", "Content", "FenceClose", "DashSeparator">>

\* (LanguageBanner, (FileName, DirPath, FencedBlock, DashSeparator)*, BlankSpacer)*
RECURSIVE IsSections(_, _)
IsSections(k, inside) ==
    IF k = <<>> THEN ~inside
    ELSE IF ~inside THEN Head(k) = "LanguageBanner" /\ IsSections(Tail(k), TRUE)
    ELSE IF Head(k) = "BlankSpacer" THEN IsSections(Tail(k), FALSE)
    ELSE /\ Len(k) >= Len(EntryKinds)
         /\ SubSeq(k, 1, Len(EntryKinds)) = EntryKinds
         /\ IsSections(SubSeq(k, Len(EntryKinds) + 1, Len(k)), TRUE)

\* Banner, Heading, Separator, then the sections.
FollowsGrammar(doc) ==
    /\ Len(doc) >= 3
    /\ SubSeq(Kinds(doc), 1, 3) = <<"Banner", "Heading", "Separator">>
    /\ IsSections(SubSeq(Kinds(doc), 4, Len(doc)), FALSE)

\* The entries under the banner at place b, in order.
SectionEntries(doc, b) ==
    SelectSeq([i \in DOMAIN doc |-> i],
              LAMBDA i : doc[i].kind = "FileName" /\ InSomeSection(doc, i) /\ SectionOf(doc, i) = b)

\* The walk is over and the volumes are computed.
Analyzed == pc # "walk"

\* The place in visited where the file of a record was read.
ReadAt(rec) ==
    CHOOSE i \in DOMAIN visited :
        visited[i].did = "read" /\ visited[i].path = Join(rec.dirpath, rec.filename)

\* When the bucket of a label was created: the first read of one of its files.
CreatedAt(lang) ==
    LET b == BucketOf(files_by_lang, lang)
    IN  CHOOSE i \in { ReadAt(b[k]) : k \in DOMAIN b } : \A j \in { ReadAt(b[k]) : k \in DOMAIN b } : i <= j

\* VolumeMetric of a label, from the files on disk.
RECURSIVE DecodedChars(_)
DecodedChars(recs) ==
    IF recs = <<>> THEN 0
    ELSE Len(Decode(files[Join(Head(recs).dirpath, Head(recs).filename)].raw)) + DecodedChars(Tail(recs))

VolumeOf(lang) == DecodedChars(BucketOf(files_by_lang, lang))

(* ------------------------------- claims ------------------------------- *)

\* C1 (as stated): when a run is complete, every file under the root whose
\* extension is recognized, which is not under an excluded directory, is not
\* the tool itself and can be read, has exactly one entry in the document,
\* under a language banner.
C1_EveryQualifyingFileOnce ==
    pc = "done" =>
        \A q \in DOMAIN files :
            Qualifies(q) =>
                /\ Cardinality(EntriesOf(outdoc, q)) = 1
                /\ \A i \in EntriesOf(outdoc, q) : InSomeSection(outdoc, i)

\* C2 (as stated): first-registered wins, so ".h" is looked up as C++ and
\* every .h file that is read lands in the C++ bucket, never in the C bucket.
C2_HeaderFilesAreCpp ==
    \A i \in DOMAIN files_by_lang : \A k \in DOMAIN files_by_lang[i].files :
        ExtOf(files_by_lang[i].files[k].filename) = ".h" => files_by_lang[i].lang = "C++"

\* C2 (amended): the label registered last wins, so ".h" is looked up as C,
\* every .h file that is read lands in the C bucket and none in the C++
\* bucket, and the sections of the document say the same.
C2_HeaderFilesAreC ==
    /\ \A i \in DOMAIN files_by_lang : \A k \in DOMAIN files_by_lang[i].files :
          ExtOf(files_by_lang[i].files[k].filename) = ".h" => files_by_lang[i].lang = "C"
    /\ \A i \in EntryStarts(outdoc) :
          (outdoc # NoFile /\ ExtOf(StripNewline(outdoc[i].text)) = ".h") =>
              /\ InSomeSection(outdoc, i)
              /\ BannerShows(outdoc[SectionOf(outdoc, i)].text, "C")

\* C2 witness: a run is complete in which a .h file and a .cpp file were
\* read, and the document has a C section and a C++ section.
C2_Witness ==
    /\ pc = "done"
    /\ HasBucket(files_by_lang, "C")
    /\ HasBucket(files_by_lang, "C++")
    /\ \E i \in EntryStarts(outdoc) : ExtOf(StripNewline(outdoc[i].text)) = ".h"

\* C3: nothing beneath a directory with an excluded name is ever yielded by
\* the walk, reached by the file loop, recorded or written, and the pruned
\* child list and the directories still to walk never hold an excluded name.
C3_ExcludedNeverVisited ==
    /\ \A i \in DOMAIN walked : ~HasExcludedComponent(walked[i])
    /\ \A i \in DOMAIN visited : ~UnderExcluded(visited[i].path)
    /\ \A i \in DOMAIN stack : ~HasExcludedComponent(stack[i])
    /\ \A i \in DOMAIN dirnames : dirnames[i] \notin exclude_dirs
    /\ \A i \in DOMAIN files_by_lang : \A k \in DOMAIN files_by_lang[i].files :
          ~HasExcludedComponent(files_by_lang[i].files[k].dirpath)
    /\ outdoc # NoFile =>
          \A i \in DOMAIN outdoc :
              outdoc[i].kind = "DirPath" => ~HasExcludedComponent(StripNewline(outdoc[i].text))

\* C3 witness: a run is complete on a tree that holds a readable file with a
\* recognized extension two levels down, in an excluded directory, and the
\* directory above it was walked.
C3_Witness ==
    /\ pc = "done"
    /\ \E q \in DOMAIN files :
          /\ UnderExcluded(q)
          /\ HasDeclaredExt(q)
          /\ files[q].readable
          /\ Basename(q) # ScriptName
          /\ \E i \in DOMAIN walked : walked[i] = Dirname(Dirname(q)) /\ walked[i] # root_dir

\* C4: once the languages are ordered, a label stands before another only
\* if its volume is at least as large, and if the two volumes are equal only
\* if its bucket was created first; the ordered list holds each bucket's
\* label once, and the banners of a complete document come in that order.
C4_OrderedByVolume ==
    Analyzed =>
        /\ Len(sorted_langs) = Len(files_by_lang)
        /\ \A i \in DOMAIN files_by_lang : \E j \in DOMAIN sorted_langs : sorted_langs[j] = files_by_lang[i].lang
        /\ \A i \in DOMAIN sorted_langs : \A j \in DOMAIN sorted_langs :
              i < j =>
                 /\ VolumeOf(sorted_langs[i]) >= VolumeOf(sorted_langs[j])
                 /\ VolumeOf(sorted_langs[i]) = VolumeOf(sorted_langs[j])
                       => CreatedAt(sorted_langs[i]) < CreatedAt(sorted_langs[j])
        /\ pc = "done" =>
              /\ Len(Banners(outdoc)) = Len(sorted_langs)
              /\ \A i \in DOMAIN sorted_langs : BannerShows(Banners(outdoc)[i].text, sorted_langs[i])

\* C4 witness: a complete run with three sections, the first of them of a
\* bucket created after the second's, the last two of equal volume.
C4_Witness ==
    /\ pc = "done"
    /\ Len(sorted_langs) = 3
    /\ VolumeOf(sorted_langs[1]) > VolumeOf(sorted_langs[2])
    /\ CreatedAt(sorted_langs[1]) > CreatedAt(sorted_langs[2])
    /\ VolumeOf(sorted_langs[2]) = VolumeOf(sorted_langs[3])

\* The record of a file is in some bucket.
Recorded(q) ==
    \E i \in DOMAIN files_by_lang : \E k \in DOMAIN files_by_lang[i].files :
        Join(files_by_lang[i].files[k].dirpath, files_by_lang[i].files[k].filename) = q

\* C5: a file whose read fails gets no record and no entry, nothing is
\* printed about it, the run never fails while the walk is still under way,
\* and a complete run has exactly one entry for every file the tool takes
\* (recognized, not named like the script, not under an excluded directory)
\* that can be read, whether it comes before or after the failing one.
C5_ReadFailureSkipped ==
    /\ \A i \in DOMAIN visited : visited[i].did = "failed" => ~Recorded(visited[i].path)
    /\ \A q \in DOMAIN files :
          ~files[q].readable => ~Recorded(q) /\ EntriesOf(outdoc, q) = {}
    /\ \A i \in DOMAIN stdout : stdout[i] = SuccessLine
    /\ pc = "failed" => stack = <<>> /\ filenames = <<>>
    /\ Analyzed => \A q \in DOMAIN files : QualifiesByName(q) => Recorded(q)
    /\ pc = "done" =>
          \A q \in DOMAIN files : QualifiesByName(q) => Cardinality(EntriesOf(outdoc, q)) = 1

\* C5 witness: a complete run in which a read failed between two reads that
\* succeeded, and both of those files are in the document.
C5_Witness ==
    /\ pc = "done"
    /\ \E i \in DOMAIN visited : \E j \in DOMAIN visited : \E k \in DOMAIN visited :
          /\ i < j /\ j < k
          /\ visited[i].did = "read" /\ visited[j].did = "failed" /\ visited[k].did = "read"
          /\ EntriesOf(outdoc, visited[i].path) # {}
          /\ EntriesOf(outdoc, visited[k].path) # {}

\* The document the grammar asks for, for the ordered list and the buckets:
\* per label the banner, then per record of the bucket, in bucket order, the
\* name, the directory, the fence tagged with the lower-cased label around
\* the decoded content of the file on disk, and the dashes, then the spacer.
EntryTexts(lang, rec) ==
    << rec.filename \o "\n",
       rec.dirpath \o "\n",
       "~~~" \o Lower(lang) \o "\n",
       Decode(files[Join(rec.dirpath, rec.filename)].raw),
       "\n~~~\n\n",
       Repeat("-", dash_width) \o "\n\n" >>

RECURSIVE EntriesTexts(_, _)
EntriesTexts(lang, recs) ==
    IF recs = <<>> THEN <<>> ELSE EntryTexts(lang, Head(recs)) \o EntriesTexts(lang, Tail(recs))

RECURSIVE SectionsTexts(_)
SectionsTexts(langs) ==
    IF langs = <<>> THEN <<>>
    ELSE EntriesTexts(Head(langs), BucketOf(files_by_lang, Head(langs))) \o <<"\n\n">>
         \o SectionsTexts(Tail(langs))

\* The texts of a document without its banners.
TextsBesideBanners(doc) ==
    LET rest == SelectSeq(doc, LAMBDA c : c.kind \notin {"Banner", "Heading", "Separator", "LanguageBanner"})
    IN  [i \in DOMAIN rest |-> rest[i].text]

IsCompleteDocument(doc) ==
    /\ FollowsGrammar(doc)
    /\ Contains(doc[1].text, "PROJECT CODEBASE OVERVIEW")
    /\ Contains(doc[2].text, project_name)
    /\ Len(Banners(doc)) = Len(sorted_langs)
    /\ \A i \in DOMAIN sorted_langs : BannerShows(Banners(doc)[i].text, sorted_langs[i])
    /\ TextsBesideBanners(doc) = SectionsTexts(sorted_langs)

\* C6, in a state: a failed run has printed nothing; what is printed is the
\* one success line, and then the run is done, the document is complete and
\* the file was closed with it.
C6_PrintedOnlyAfterClose ==
    /\ pc = "failed" => stdout = <<>>
    /\ pc = "done" => stdout = <<SuccessLine>>
    /\ stdout # <<>> =>
          /\ pc = "done"
          /\ stdout = <<SuccessLine>>
          /\ Len(docs) = run
          /\ docs[run] = outdoc
          /\ IsCompleteDocument(outdoc)

\* C6, in a step: a run fails only at the open or at a write, a failing step
\* leaves the output file and the tree as they are, and a failed run takes
\* no further step.
C6_FailureStep ==
    /\ (pc' = "failed" /\ pc # "failed") =>
          /\ pc \in WritePcs \cup {"open"}
          /\ outdoc' = outdoc
          /\ listing' = listing
          /\ stdout' = stdout
    /\ pc = "failed" => UNCHANGED vars

\* C6: a failure to open or write the output is fatal, cleans nothing up and
\* prints no success line; the success line is printed once, after the whole
\* document is written and the file closed.
C6_WriteFailureFatal == []C6_PrintedOnlyAfterClose /\ [][C6_FailureStep]_vars

\* C6 witness: a run has failed in the middle of a file entry, with the
\* chunks written before the failure still in the output file.
C6_Witness ==
    /\ pc = "failed"
    /\ Len(outdoc) > 4
    /\ outdoc[Len(outdoc)].kind = "FenceOpen"
    /\ stdout = <<>>

\* C7: the documents of successive invocations on the same tree are equal,
\* chunk for chunk; when an invocation is complete the output file holds
\* its document and nothing else; the output file is never recorded, and
\* from the second invocation on the walk meets it and leaves it out.
C7_Idempotent ==
    /\ \A i \in DOMAIN docs : \A j \in DOMAIN docs : docs[i] = docs[j]
    /\ pc \in {"print", "done"} => Len(docs) = run /\ outdoc = docs[run]
    /\ ~Recorded(output_path)
    /\ EntriesOf(outdoc, output_path) = {}
    /\ (run >= 2 /\ Analyzed) =>
          \E i \in DOMAIN visited : visited[i].path = output_path /\ visited[i].did = "unrecognized"

\* C7 witness: the second invocation is complete, its walk met the document
\* of the first, and the documents hold a file entry.
C7_Witness ==
    /\ run = 2
    /\ pc = "done"
    /\ Len(docs) = 2
    /\ EntryStarts(docs[2]) # {}
    /\ \E i \in DOMAIN visited : visited[i].path = output_path

\* C8: the document of a complete run follows the grammar, with the banner
\* of each label of the ordered list, upper-cased, in the order of the list,
\* and under it the entries of the bucket's records in bucket order: name,
\* directory, content as decoded from the file inside a fence tagged with
\* the lower-cased label, dashes; a blank spacer ends each section.
C8_DocumentGrammar ==
    /\ pc \in {"print", "done"} => IsCompleteDocument(outdoc)
    /\ \A i \in DOMAIN docs : FollowsGrammar(docs[i])

\* C8 witness: a complete document with two sections, one of them with two
\* entries, and a content that lost an undecodable byte.
C8_Witness ==
    /\ pc = "done"
    /\ Len(sorted_langs) = 2
    /\ \E i \in DOMAIN files_by_lang : Len(files_by_lang[i].files) = 2
    /\ \E i \in EntryStarts(outdoc) :
          Len(outdoc[i + 3].text) < Len(files[EntryPath(outdoc, i)].raw)

\* C9 (as stated): the entries of a complete document are exactly the files
\* that are recognized, readable, not the tool and not under an excluded
\* directory; a file with an unrecognized extension has no entry; every
\* banner shows a label of the table; and self-exclusion skips no file but
\* the tool's own source file.
C9_BucketsCoverExactly ==
    pc = "done" =>
        /\ \A i \in EntryStarts(outdoc) :
              EntryPath(outdoc, i) \in DOMAIN files /\ Qualifies(EntryPath(outdoc, i))
        /\ \A q \in DOMAIN files : Qualifies(q) => EntriesOf(outdoc, q) # {}
        /\ \A q \in DOMAIN files : ~HasDeclaredExt(q) => EntriesOf(outdoc, q) = {}
        /\ \A b \in BannerPlaces(outdoc) : \E lang \in Labels : BannerShows(outdoc[b].text, lang)
        /\ \A i \in DOMAIN visited : visited[i].did = "self" => visited[i].path = ScriptFile

\* The labels of the files read so far, by the table.
ReadLabels ==
    { LangOf(Basename(visited[i].path)) : i \in { j \in DOMAIN visited : visited[j].did = "read" } }

\* C10: every bucket, every volume entry and every label of the ordered
\* list has a file that was read; every section of a complete document has
\* an entry; and a label none of whose files was read (unreadable, named
\* like the script, or under an excluded directory) has no bucket, no
\* volume, no place in the list and no banner.
C10_NoEmptyBucket ==
    /\ \A i \in DOMAIN files_by_lang : files_by_lang[i].files # <<>>
    /\ \A i \in DOMAIN lang_volumes : BucketOf(files_by_lang, lang_volumes[i].lang) # <<>>
    /\ \A i \in DOMAIN sorted_langs : BucketOf(files_by_lang, sorted_langs[i]) # <<>>
    /\ pc = "done" => \A b \in BannerPlaces(outdoc) : SectionEntries(outdoc, b) # <<>>
    /\ \A lang \in Labels \ ReadLabels :
          /\ ~HasBucket(files_by_lang, lang)
          /\ \A i \in DOMAIN lang_volumes : lang_volumes[i].lang # lang
          /\ \A i \in DOMAIN sorted_langs : sorted_langs[i] # lang
          /\ pc = "done" => \A b \in BannerPlaces(outdoc) : ~BannerShows(outdoc[b].text, lang)

\* C10 witness: a complete run on a tree whose only Python files outside
\* excluded directories could not be read or are named like the script, and
\* whose document has a section all the same.
C10_Witness ==
    /\ pc = "done"
    /\ \E i \in DOMAIN visited : visited[i].did = "failed" /\ ExtOf(visited[i].path) = ".py"
    /\ \E i \in DOMAIN visited : visited[i].did = "self"
    /\ ~HasBucket(files_by_lang, "Python")
    /\ BannerPlaces(outdoc) # {}

====
